---- MODULE Spec2Model ----
(***************************************************************************)
(* The execution core of rush (src/src/lang/exec.rs): the JobManager, its  *)
(* tree evaluator spawn_procs_from_ast, and the operating system it talks  *)
(* to (process table, wait, pipes).  The evaluator is recursive and blocks *)
(* in wait(), so it is modelled as a call stack of frames; one step of the *)
(* model runs the top frame up to its next call, return or wait.           *)
(***************************************************************************)
EXTENDS Integers, Sequences, FiniteSets, TLC

VARIABLES
    next_jid,        \* JobManager.next_jid
    running_jobs,    \* JobManager.running_jobs : pid -> Jid
    completed_jobs,  \* JobManager.completed_jobs : Jid -> ExitStatus
    ecs,             \* ecs[1] is the driver's ExecutionContext, above it the BraceGroup clones
    stack,           \* call stack of run / spawn_procs_from_ast / await_all / await
    ret,             \* the Result the last finished call returned
    panicked,        \* the shell process is gone: an unwrap() failed or its stack overflowed
    procs,           \* OS process table: the children of the shell
    pfd,             \* the shell's file descriptor table (pipe ends)
    npipes,          \* number of pipes the kernel created so far
    last_pid,        \* the highest pid the kernel handed out so far
    script,          \* the command trees the driver will hand to run, in order
    idx,             \* index of the next command of script
    calls,           \* number of direct stat / await / await_all calls the driver made
    observed         \* what the driver saw at the end of a Group run (ec and exit code)

vars == <<next_jid, running_jobs, completed_jobs, ecs, stack, ret, panicked,
          procs, pfd, npipes, last_pid, script, idx, calls, observed>>

(***************************************************************************)
(* Bounds of the model.                                                    *)
(***************************************************************************)
MaxPid == 3      \* the OS has pids 1..MaxPid for children; fork fails when none is free
MaxFd == 8       \* the shell may hold fds 3..MaxFd; pipe() fails when fewer than two are free
MaxCalls == 1    \* direct stat / await / await_all calls of the driver per behaviour
MaxStack == 6    \* nested calls the shell's stack has room for; no tree of Scripts needs
                 \* more than five, so only unbounded recursion reaches it

ShellPid == 0
PanicCode == 101

Pids == 1..MaxPid
Fds == 3..MaxFd

(***************************************************************************)
(* Values.                                                                 *)
(***************************************************************************)
NoSignal == "None"
NoEnd == [pipe |-> 0, end |-> "-"]
Tty == [pipe |-> 0, end |-> "tty"]
NoFd == -1

ExitStatus(pid, code, core, sig) ==
    [pid |-> pid, exit_code |-> code, core_dumped |-> core, signal |-> sig]

NoStatus == ExitStatus(-1, 0, FALSE, "-")

\* texts are sequences of path components: "./t" is <<".", "t">>, "ls" is <<"ls">>
Lit(t) == [kind |-> "lit", text |-> t]
AssignX(t) == [kind |-> "assign", text |-> t]
BadWord == [kind |-> "bad", text |-> <<>>]

SimpleCommand(ws) == [type |-> "SimpleCommand", arguments |-> ws]
Pipeline(a, b) == [type |-> "Pipeline", from |-> a, to |-> b]
BraceGroup(cs) == [type |-> "BraceGroup", commands |-> cs]
Group(cs) == [type |-> "Group", commands |-> cs]
ConditionalPair(a, b, op) ==
    [type |-> "ConditionalPair", left |-> a, right |-> b, operator |-> op]
Function(n, b) == [type |-> "Function", name |-> n, body |-> b]
Comment == [type |-> "Comment"]
NilCmd == [type |-> "Nil"]

Cmd(t) == SimpleCommand(<<Lit(t)>>)
True == Cmd(<<".", "t">>)
False == Cmd(<<".", "f">>)
Killed == Cmd(<<".", "s">>)
Missing == Cmd(<<"ls">>)
Dir == Cmd(<<"bin">>)
CallFn == Cmd(<<"fn">>)

(***************************************************************************)
(* The file system and the programs in it.                                 *)
(***************************************************************************)
Files == { <<".", "t">>, <<".", "f">>, <<".", "s">>,
           <<"/", "usr", "bin", "ls">>, <<"/", "bin", "ls">> }
Dirs == { <<"/">>, <<"/", "usr">>, <<"/", "usr", "bin">>, <<"/", "bin">> }

Exists(p) == p \in Files \cup Dirs

EnvPath == << <<"/", "usr", "bin">>, <<"/", "bin">> >>

\* how a child that execs exe terminates: WaitStatus::Exited / WaitStatus::Signaled
Outcome(exe) ==
    IF exe \notin Files THEN [kind |-> "Exited", code |-> PanicCode, core |-> FALSE]
    ELSE IF exe[Len(exe)] = "t" THEN [kind |-> "Exited", code |-> 0, core |-> FALSE]
    ELSE IF exe[Len(exe)] = "f" THEN [kind |-> "Exited", code |-> 1, core |-> FALSE]
    ELSE IF exe[Len(exe)] = "s" THEN [kind |-> "Signaled", code |-> 9, core |-> FALSE]
    ELSE [kind |-> "Exited", code |-> 0, core |-> FALSE]

(***************************************************************************)
(* ExecutionContext.                                                       *)
(***************************************************************************)
EmptyMap == [x \in {} |-> 0]

NewContext ==
    [vars |-> [PATH |-> EnvPath, RUSH_VERSION |-> <<"0.1.0">>, X |-> <<>>],
     funcs |-> EmptyMap]

\* Functions::value: the body stored under name, if any
FuncValue(funcs, name) ==
    IF name \in DOMAIN funcs THEN [found |-> TRUE, body |-> funcs[name]]
    ELSE [found |-> FALSE, body |-> NilCmd]

\* a map with key k set to v (BTreeMap::insert and Functions::insert overwrite)
MapInsert(m, k, v) == [x \in DOMAIN m \cup {k} |-> IF x = k THEN v ELSE m[x]]

\* Word::compile against the variable store
Compile(w, vs) ==
    IF w.kind = "bad" THEN [ok |-> FALSE, text |-> <<>>, vars |-> vs]
    ELSE IF w.kind = "assign" /\ vs.X = <<>>
         THEN [ok |-> TRUE, text |-> w.text, vars |-> [vs EXCEPT !.X = w.text]]
    ELSE IF w.kind = "assign" THEN [ok |-> TRUE, text |-> vs.X, vars |-> vs]
    ELSE [ok |-> TRUE, text |-> w.text, vars |-> vs]

\* the loop over cmd.arguments: each word is compiled against the vars the
\* previous ones left
RECURSIVE CompileAll(_, _, _)
CompileAll(ws, i, acc) ==
    IF i > Len(ws) \/ ~acc.ok THEN acc
    ELSE LET c == Compile(ws[i], acc.vars)
         IN CompileAll(ws, i + 1,
                [ok |-> c.ok, args |-> Append(acc.args, c.text), vars |-> c.vars])

\* PathBuf::with_file_name: the last component is replaced
WithFileName(path, prog) ==
    IF Len(path) <= 1 THEN path \o prog
    ELSE SubSeq(path, 1, Len(path) - 1) \o prog

RECURSIVE FindFrom(_, _, _)
FindFrom(paths, prog, i) ==
    IF i > Len(paths) THEN [ok |-> FALSE, path |-> <<>>]
    ELSE IF Exists(WithFileName(paths[i], prog))
         THEN [ok |-> TRUE, path |-> WithFileName(paths[i], prog)]
    ELSE FindFrom(paths, prog, i + 1)

find_executable(ec, prog) == FindFrom(ec.vars.PATH, prog, 1)

StartsWithDotSlash(argv0) == Len(argv0) >= 2 /\ argv0[1] = "."

(***************************************************************************)
(* JobManager: the pure parts of its methods.                              *)
(***************************************************************************)
Range(f) == { f[x] : x \in DOMAIN f }

Last(s) == s[Len(s)]

\* add_job: the Jid handed out, and the counter after it
AddJobJid(n) == n

\* add_job as it would be without the increment of line 127
AddJobNextStuck(n) == n

AddJobNext(n) == n + 1

\* add_job as it would be if an entry already stored under pid were kept
AddJobRunningKeep(running, pid, jid) ==
    IF pid \in DOMAIN running THEN running ELSE MapInsert(running, pid, jid)

\* add_job: running_jobs.insert(pid, jid) replaces what was stored under pid
AddJobRunning(running, pid, jid) == MapInsert(running, pid, jid)

\* run as it would be if it reported the first Jid instead of the last
RunResultFirst(jids, completed) ==
    IF jids = <<>> THEN [panic |-> FALSE, st |-> ExitStatus(ShellPid, 0, FALSE, NoSignal)]
    ELSE IF jids[1] \in DOMAIN completed
         THEN [panic |-> FALSE, st |-> completed[jids[1]]]
    ELSE [panic |-> TRUE, st |-> NoStatus]

\* run: the status returned for the Jids the evaluator produced
\* (jids.last().map(|id| completed_jobs.get(id).unwrap()).unwrap_or(synthetic))
RunResult(jids, completed) ==
    IF jids = <<>> THEN [panic |-> FALSE, st |-> ExitStatus(ShellPid, 0, FALSE, NoSignal)]
    ELSE IF Last(jids) \in DOMAIN completed
         THEN [panic |-> FALSE, st |-> completed[Last(jids)]]
    ELSE [panic |-> TRUE, st |-> NoStatus]

\* ConditionalPair: exit code of the last job of the left side
CondExitCode(jobs_left, completed) ==
    IF jobs_left = <<>> THEN [panic |-> FALSE, code |-> 0]
    ELSE IF Last(jobs_left) \in DOMAIN completed
         THEN [panic |-> FALSE, code |-> completed[Last(jobs_left)].exit_code]
    ELSE [panic |-> TRUE, code |-> 0]

\* ConditionalPair as it would be with the two operators exchanged
CondTakenSwapped(exit_code, operator) ==
    \/ exit_code = 0 /\ operator = "OrIf"
    \/ exit_code # 0 /\ operator = "AndIf"

\* ConditionalPair: whether the right side runs
CondTaken(exit_code, operator) ==
    \/ exit_code = 0 /\ operator = "AndIf"
    \/ exit_code # 0 /\ operator = "OrIf"

\* await_all as it would be if it took every Jid of the argument for complete
IncompleteNone(jids, completed) == {}

\* await_all: the Jids of the argument that are not yet in completed_jobs
Incomplete(jids, completed) ==
    { jids[k] : k \in { k \in 1..Len(jids) : jids[k] \notin DOMAIN completed } }

\* stat as it would be if it looked at running_jobs alone
StatRunningOnly(jid, running, completed) ==
    IF \E p \in DOMAIN running : running[p] = jid
    THEN [ok |-> TRUE, js |-> "Running", st |-> NoStatus, err |-> "-"]
    ELSE [ok |-> FALSE, js |-> "-", st |-> NoStatus, err |-> "InvalidJobId"]

\* stat
StatOf(jid, running, completed) ==
    IF jid \in DOMAIN completed
    THEN [ok |-> TRUE, js |-> "Complete", st |-> completed[jid], err |-> "-"]
    ELSE IF \E p \in DOMAIN running : running[p] = jid
         THEN [ok |-> TRUE, js |-> "Running", st |-> NoStatus, err |-> "-"]
    ELSE [ok |-> FALSE, js |-> "-", st |-> NoStatus, err |-> "InvalidJobId"]

(***************************************************************************)
(* The operating system: children, wait, pipes.                            *)
(***************************************************************************)
Min(S) == CHOOSE x \in S : \A y \in S : x <= y

FreeProc == [st |-> "free", exe |-> <<>>, fd0 |-> NoEnd, fd1 |-> NoEnd, held |-> {}]

FreePids == { p \in Pids : procs[p].st = "free" }

Zombies == { p \in Pids : procs[p].st = "zombie" }

NoChildren == \A p \in Pids : procs[p].st = "free"

\* next(): the (Jid, ExitStatus) built from the wait status of pid, if pid is
\* a key of running_jobs
NextStatus(pid) ==
    LET o == Outcome(procs[pid].exe)
    IN IF o.kind = "Exited" THEN ExitStatus(pid, o.code, FALSE, NoSignal)
       ELSE ExitStatus(pid, -1, o.core, "SIGKILL")

NoPair == [some |-> FALSE, jid |-> 0, st |-> NoStatus]

NextPair(pid, running) ==
    IF pid \in DOMAIN running
    THEN [some |-> TRUE, jid |-> running[pid], st |-> NextStatus(pid)]
    ELSE NoPair

\* the pid fork gives the next child: the lowest free pid (a pid is reused as
\* soon as it is free) or the lowest pid never used so far
ForkPids ==
    IF FreePids = {} THEN {}
    ELSE {Min(FreePids)} \cup (IF last_pid < MaxPid THEN {last_pid + 1} ELSE {})

FreeFds == { fd \in Fds : pfd[fd] = NoEnd }

\* the child's descriptors at exec: it inherits the shell's table, closes
\* close_fds, then dup2s stdin onto 0 and stdout onto 1
ChildTable(opts) ==
    [fd \in Fds |-> IF \E k \in 1..Len(opts.close_fds) : opts.close_fds[k] = fd
                    THEN NoEnd ELSE pfd[fd]]

ChildProc(exe, opts) ==
    LET t == ChildTable(opts)
    IN [st |-> "alive", exe |-> exe,
        fd0 |-> IF opts.stdin # NoFd /\ t[opts.stdin] # NoEnd THEN t[opts.stdin] ELSE Tty,
        fd1 |-> IF opts.stdout # NoFd /\ t[opts.stdout] # NoEnd THEN t[opts.stdout] ELSE Tty,
        held |-> { t[fd] : fd \in Fds } \ {NoEnd}]

(***************************************************************************)
(* Frames of the call stack and results.                                   *)
(***************************************************************************)
ProcOptions(close_fds, stdin, stdout) ==
    [close_fds |-> close_fds, env |-> <<>>, stdin |-> stdin, stdout |-> stdout]

Frame(fn, cmd, opts, ec, jids, jid) ==
    [fn |-> fn, pc |-> "start", cmd |-> cmd, opts |-> opts, ec |-> ec, sub |-> ec,
     jids |-> jids, jobs_right |-> <<>>, jid |-> jid, i |-> 1, incomplete |-> {},
     exit_code |-> 0, stdin |-> NoFd, stdout |-> NoFd]

RetNone == [op |-> "none", ok |-> TRUE, err |-> "-", jids |-> <<>>, st |-> NoStatus,
            js |-> "-", arg |-> <<>>]

OkJids(js) == [RetNone EXCEPT !.op = "spawn", !.jids = js]

OkUnit(op, arg) == [RetNone EXCEPT !.op = op, !.arg = arg]

OkStatus(op, arg, st) == [RetNone EXCEPT !.op = op, !.st = st, !.arg = arg]

Err(op, kind) == [RetNone EXCEPT !.op = op, !.ok = FALSE, !.err = kind]

Top == stack[Len(stack)]

Rest == SubSeq(stack, 1, Len(stack) - 1)

Active == stack # <<>> /\ ~panicked

At(fn, pc) == Active /\ Top.fn = fn /\ Top.pc = pc

AtCmd(type, pc) == At("spawn", pc) /\ Top.cmd.type = type

Return(r) == stack' = Rest /\ ret' = r

Goto(f) == stack' = Append(Rest, f) /\ ret' = RetNone

Call(f, callee) == stack' = Append(Append(Rest, f), callee) /\ ret' = RetNone

SpawnFrame(cmd, opts, ec) == Frame("spawn", cmd, opts, ec, <<>>, 0)

NoOpts == ProcOptions(<<>>, NoFd, NoFd)

\* await_all entered: incomplete is the filter over jids of lines 315-319
AwaitAllFrame(jids) ==
    [Frame("await_all", NilCmd, NoOpts, 0, jids, 0)
        EXCEPT !.incomplete = Incomplete(jids, completed_jobs), !.pc = "first"]

AwaitFrame(jid) == [Frame("await", NilCmd, NoOpts, 0, <<>>, jid) EXCEPT !.pc = "next"]

JM == <<next_jid, running_jobs, completed_jobs>>

OS == <<procs, pfd, npipes, last_pid>>

DRV == <<script, idx, calls, observed>>

(***************************************************************************)
(* run                                                                     *)
(***************************************************************************)
RunSpawned ==
    /\ At("run", "spawned")
    /\ IF ~ret.ok
       THEN Return([ret EXCEPT !.op = "run"])
       ELSE Call([Top EXCEPT !.pc = "awaited", !.jids = ret.jids], AwaitAllFrame(ret.jids))
    /\ UNCHANGED <<JM, OS, DRV, ecs, panicked>>

\* the result of await_all is discarded (line 75)
RunReturn ==
    /\ At("run", "awaited")
    /\ LET r == RunResult(Top.jids, completed_jobs)
       IN IF r.panic
          THEN panicked' = TRUE /\ UNCHANGED <<stack, ret>>
          ELSE Return(OkStatus("run", <<>>, r.st)) /\ UNCHANGED panicked
    /\ UNCHANGED <<JM, OS, DRV, ecs>>

(***************************************************************************)
(* spawn_procs_from_ast and spawn_proc                                     *)
(***************************************************************************)
\* the executable of a command that is not a function call
Executable(ec, argv0) ==
    IF ~StartsWithDotSlash(argv0) THEN find_executable(ec, argv0)
    ELSE [ok |-> TRUE, path |-> argv0]

\* line 193: the body of a function is evaluated by a nested call of
\* spawn_procs_from_ast; a function that calls itself nests without end and
\* the process dies of stack overflow
FunctionCall(body) ==
    IF Len(stack) >= MaxStack
    THEN panicked' = TRUE /\ UNCHANGED <<stack, ret>>
    ELSE /\ Call([Top EXCEPT !.pc = "called"], SpawnFrame(body, Top.opts, Top.ec))
         /\ UNCHANGED panicked

Simple ==
    /\ AtCmd("SimpleCommand", "start")
    /\ LET c == CompileAll(Top.cmd.arguments, 1,
                    [ok |-> TRUE, args |-> <<>>, vars |-> ecs[Top.ec].vars])
           ec1 == [ecs[Top.ec] EXCEPT !.vars = c.vars]
           argv0 == c.args[1]
           fv == FuncValue(ec1.funcs, argv0)
           exe == Executable(ec1, argv0)
       IN /\ ecs' = [ecs EXCEPT ![Top.ec] = ec1]
          /\ IF ~c.ok
             THEN Return(Err("spawn", "ExecFailed")) /\ UNCHANGED <<JM, procs, last_pid, panicked>>
             ELSE IF fv.found
             THEN FunctionCall(fv.body) /\ UNCHANGED <<JM, procs, last_pid>>
             ELSE IF ~exe.ok
             THEN Return([Err("spawn", "MissingExecutable") EXCEPT !.arg = argv0])
                  /\ UNCHANGED <<JM, procs, last_pid, panicked>>
             ELSE IF FreePids = {}
             THEN Return(Err("spawn", "ExecFailed")) /\ UNCHANGED <<JM, procs, last_pid, panicked>>
             ELSE \E pid \in ForkPids :
                    /\ procs' = [procs EXCEPT ![pid] = ChildProc(exe.path, Top.opts)]
                    /\ last_pid' = IF pid > last_pid THEN pid ELSE last_pid
                    /\ running_jobs' = AddJobRunning(running_jobs, pid, AddJobJid(next_jid))
                    /\ next_jid' = AddJobNext(next_jid)
                    /\ UNCHANGED <<completed_jobs, panicked>>
                    /\ Return(OkJids(<<AddJobJid(next_jid)>>))
    /\ UNCHANGED <<pfd, npipes, DRV>>

\* line 193: the value of the recursive call is the value of the function call
FunctionReturn ==
    /\ AtCmd("SimpleCommand", "called")
    /\ Return(ret)
    /\ UNCHANGED <<JM, OS, DRV, ecs, panicked>>

WithFd(fds, fd) == IF fd # NoFd THEN Append(fds, fd) ELSE fds

FromOpts(opts, rd, wr) ==
    ProcOptions(WithFd(Append(opts.close_fds, rd), opts.stdout), opts.stdin, wr)

ToOpts(opts, rd, wr) ==
    ProcOptions(WithFd(Append(opts.close_fds, wr), opts.stdin), rd, opts.stdout)

PipelineStart ==
    /\ AtCmd("Pipeline", "start")
    /\ IF Cardinality(FreeFds) < 2
       THEN Return(Err("spawn", "PipelineCreationFailed")) /\ UNCHANGED <<pfd, npipes>>
       ELSE LET rd == Min(FreeFds)
                wr == Min(FreeFds \ {rd})
            IN /\ pfd' = [pfd EXCEPT ![rd] = [pipe |-> npipes + 1, end |-> "r"],
                                     ![wr] = [pipe |-> npipes + 1, end |-> "w"]]
               /\ npipes' = npipes + 1
               /\ Call([Top EXCEPT !.pc = "from_done", !.stdin = rd, !.stdout = wr],
                       SpawnFrame(Top.cmd.from, FromOpts(Top.opts, rd, wr), Top.ec))
    /\ UNCHANGED <<JM, procs, last_pid, DRV, ecs, panicked>>

PipelineFromDone ==
    /\ AtCmd("Pipeline", "from_done")
    /\ IF ~ret.ok
       THEN Return(ret)
       ELSE Call([Top EXCEPT !.pc = "to_done", !.jids = ret.jids],
                 SpawnFrame(Top.cmd.to, ToOpts(Top.opts, Top.stdin, Top.stdout), Top.ec))
    /\ UNCHANGED <<JM, OS, DRV, ecs, panicked>>

PipelineToDone ==
    /\ AtCmd("Pipeline", "to_done")
    /\ IF ~ret.ok
       THEN Return(ret) /\ UNCHANGED pfd
       ELSE /\ pfd' = [pfd EXCEPT ![Top.stdin] = NoEnd, ![Top.stdout] = NoEnd]
            /\ Return(OkJids(Top.jids \o ret.jids))
    /\ UNCHANGED <<JM, procs, npipes, last_pid, DRV, ecs, panicked>>

IsGroup(type) == type \in {"Group", "BraceGroup"}

\* a BraceGroup as it would be if its commands ran against the caller's
\* context instead of the clone
GroupLoopShared(f, e) ==
    IF f.i > Len(f.cmd.commands)
    THEN /\ ecs' = IF f.cmd.type = "BraceGroup" THEN SubSeq(e, 1, Len(e) - 1) ELSE e
         /\ Return(OkJids(<<>>))
    ELSE /\ ecs' = e
         /\ Call([f EXCEPT !.pc = "cmd_done"],
                 SpawnFrame(f.cmd.commands[f.i], f.opts, f.ec))

\* the head of the for loop over group.commands, with f the group's frame
\* and e the contexts; a BraceGroup's clone is dropped when the group returns
GroupLoop(f, e) ==
    IF f.i > Len(f.cmd.commands)
    THEN /\ ecs' = IF f.cmd.type = "BraceGroup" THEN SubSeq(e, 1, Len(e) - 1) ELSE e
         /\ Return(OkJids(<<>>))
    ELSE /\ ecs' = e
         /\ Call([f EXCEPT !.pc = "cmd_done"],
                 SpawnFrame(f.cmd.commands[f.i], f.opts, f.sub))

GroupStart ==
    /\ Active /\ Top.fn = "spawn" /\ Top.pc = "start" /\ IsGroup(Top.cmd.type)
    /\ IF Top.cmd.type = "BraceGroup"
       THEN GroupLoop([Top EXCEPT !.sub = Len(ecs) + 1], Append(ecs, ecs[Top.ec]))
       ELSE GroupLoop(Top, ecs)
    /\ UNCHANGED <<JM, OS, DRV, panicked>>

\* a group as it would be without the await_all of lines 246 and 254
GroupCmdDoneNoAwait ==
    /\ Active /\ Top.fn = "spawn" /\ Top.pc = "cmd_done" /\ IsGroup(Top.cmd.type)
    /\ IF ~ret.ok
       THEN /\ Return(ret)
            /\ ecs' = IF Top.cmd.type = "BraceGroup"
                      THEN SubSeq(ecs, 1, Len(ecs) - 1) ELSE ecs
       ELSE GroupLoop([Top EXCEPT !.i = Top.i + 1], ecs)
    /\ UNCHANGED <<JM, OS, DRV, panicked>>

GroupCmdDone ==
    /\ Active /\ Top.fn = "spawn" /\ Top.pc = "cmd_done" /\ IsGroup(Top.cmd.type)
    /\ IF ~ret.ok
       THEN /\ Return(ret)
            /\ ecs' = IF Top.cmd.type = "BraceGroup"
                      THEN SubSeq(ecs, 1, Len(ecs) - 1) ELSE ecs
       ELSE /\ Call([Top EXCEPT !.pc = "awaited"], AwaitAllFrame(ret.jids))
            /\ UNCHANGED ecs
    /\ UNCHANGED <<JM, OS, DRV, panicked>>

GroupAwaited ==
    /\ Active /\ Top.fn = "spawn" /\ Top.pc = "awaited" /\ IsGroup(Top.cmd.type)
    /\ GroupLoop([Top EXCEPT !.i = Top.i + 1], ecs)
    /\ UNCHANGED <<JM, OS, DRV, panicked>>

CondStart ==
    /\ AtCmd("ConditionalPair", "start")
    /\ Call([Top EXCEPT !.pc = "left_done"], SpawnFrame(Top.cmd.left, Top.opts, Top.ec))
    /\ UNCHANGED <<JM, OS, DRV, ecs, panicked>>

CondLeftDone ==
    /\ AtCmd("ConditionalPair", "left_done")
    /\ IF ~ret.ok
       THEN Return(ret)
       ELSE Call([Top EXCEPT !.pc = "left_awaited", !.jids = ret.jids],
                 AwaitAllFrame(ret.jids))
    /\ UNCHANGED <<JM, OS, DRV, ecs, panicked>>

CondLeftAwaited ==
    /\ AtCmd("ConditionalPair", "left_awaited")
    /\ LET c == CondExitCode(Top.jids, completed_jobs)
       IN IF c.panic
          THEN panicked' = TRUE /\ UNCHANGED <<stack, ret>>
          ELSE /\ UNCHANGED panicked
               /\ IF CondTaken(c.code, Top.cmd.operator)
                  THEN Call([Top EXCEPT !.pc = "right_done", !.exit_code = c.code],
                            SpawnFrame(Top.cmd.right, Top.opts, Top.ec))
                  ELSE Return(OkJids(Top.jids))
    /\ UNCHANGED <<JM, OS, DRV, ecs>>

CondRightDone ==
    /\ AtCmd("ConditionalPair", "right_done")
    /\ IF ~ret.ok
       THEN Return(ret)
       ELSE Call([Top EXCEPT !.pc = "right_awaited", !.jobs_right = ret.jids],
                 AwaitAllFrame(ret.jids))
    /\ UNCHANGED <<JM, OS, DRV, ecs, panicked>>

CondRightAwaited ==
    /\ AtCmd("ConditionalPair", "right_awaited")
    /\ Return(OkJids(Top.jobs_right))
    /\ UNCHANGED <<JM, OS, DRV, ecs, panicked>>

FunctionDef ==
    /\ AtCmd("Function", "start")
    /\ LET c == Compile(Top.cmd.name, ecs[Top.ec].vars)
       IN IF ~c.ok
          THEN /\ ecs' = [ecs EXCEPT ![Top.ec].vars = c.vars]
               /\ Return(Err("spawn", "WordError"))
          ELSE /\ ecs' = [ecs EXCEPT ![Top.ec].vars = c.vars,
                                     ![Top.ec].funcs = MapInsert(@, c.text, Top.cmd.body)]
               /\ Return(OkJids(<<>>))
    /\ UNCHANGED <<JM, OS, DRV, panicked>>

CommentStep ==
    /\ AtCmd("Comment", "start")
    /\ Return(OkJids(<<>>))
    /\ UNCHANGED <<JM, OS, DRV, ecs, panicked>>

(***************************************************************************)
(* next, await_all, await, stat                                            *)
(***************************************************************************)
\* next()'s pair as it would fare if the insert into completed_jobs were left out
RecordDropped(completed, c) == completed

\* completed_jobs.insert(completed.0, completed.1)
Record(completed, c) == MapInsert(completed, c.jid, c.st)

\* await_all, line 325: incomplete.remove(&completed.0)
StillIncomplete(incomplete, c) == incomplete \ {c.jid}

\* await_all, line 321: the call of next() made before the loop is entered,
\* then the loop test; the first pair is not removed from incomplete
AwaitAllFirst ==
    /\ At("await_all", "first")
    /\ IF NoChildren
       THEN /\ Return([Err("await_all", "WaitFailed") EXCEPT !.arg = Top.jids])
            /\ UNCHANGED <<procs, completed_jobs>>
       ELSE \E p \in Zombies :
              LET c == NextPair(p, running_jobs)
              IN /\ procs' = [procs EXCEPT ![p] = FreeProc]
                 /\ IF ~c.some
                    THEN Goto(Top) /\ UNCHANGED completed_jobs
                    ELSE /\ completed_jobs' = Record(completed_jobs, c)
                         /\ IF Top.incomplete # {}
                            THEN Goto([Top EXCEPT !.pc = "loop"])
                            ELSE Return(OkUnit("await_all", Top.jids))
    /\ UNCHANGED <<next_jid, running_jobs, pfd, npipes, last_pid, DRV, ecs, panicked>>

\* await_all, lines 324-325 and the loop test after them
AwaitAllLoop ==
    /\ At("await_all", "loop")
    /\ IF NoChildren
       THEN /\ Return([Err("await_all", "WaitFailed") EXCEPT !.arg = Top.jids])
            /\ UNCHANGED <<procs, completed_jobs>>
       ELSE \E p \in Zombies :
              LET c == NextPair(p, running_jobs)
                  inc == StillIncomplete(Top.incomplete, c)
              IN /\ procs' = [procs EXCEPT ![p] = FreeProc]
                 /\ IF ~c.some
                    THEN Goto(Top) /\ UNCHANGED completed_jobs
                    ELSE /\ completed_jobs' = Record(completed_jobs, c)
                         /\ IF inc # {}
                            THEN Goto([Top EXCEPT !.incomplete = inc])
                            ELSE Return(OkUnit("await_all", Top.jids))
    /\ UNCHANGED <<next_jid, running_jobs, pfd, npipes, last_pid, DRV, ecs, panicked>>

\* await as it would be if only the pair of the awaited Jid were stored
AwaitRecordTargetOnly(completed, c, jid) ==
    IF c.jid = jid THEN Record(completed, c) ELSE completed

\* await, lines 304-309: what is stored of a pair next() returned
AwaitRecord(completed, c, jid) == Record(completed, c)

AwaitNext ==
    /\ At("await", "next")
    /\ IF NoChildren
       THEN /\ Return([Err("await", "WaitFailed") EXCEPT !.arg = <<Top.jid>>])
            /\ UNCHANGED <<procs, completed_jobs>>
       ELSE \E p \in Zombies :
              LET c == NextPair(p, running_jobs)
              IN /\ procs' = [procs EXCEPT ![p] = FreeProc]
                 /\ IF ~c.some
                    THEN Goto(Top) /\ UNCHANGED completed_jobs
                    ELSE /\ completed_jobs' = AwaitRecord(completed_jobs, c, Top.jid)
                         /\ IF c.jid # Top.jid
                            THEN Goto(Top)
                            ELSE Return(OkStatus("await", <<Top.jid>>, c.st))
    /\ UNCHANGED <<next_jid, running_jobs, pfd, npipes, last_pid, DRV, ecs, panicked>>

\* a child terminates (it becomes a zombie until the shell waits for it)
ChildExit ==
    /\ ~panicked
    /\ \E p \in Pids :
          /\ procs[p].st = "alive"
          /\ procs' = [procs EXCEPT ![p].st = "zombie"]
    /\ UNCHANGED <<JM, pfd, npipes, last_pid, DRV, ecs, stack, ret, panicked>>

(***************************************************************************)
(* The driver (main.rs, shell/mod.rs): it hands the commands of the script *)
(* to run one after the other, and may call the public stat, await and     *)
(* await_all in between.                                                   *)
(***************************************************************************)
Idle == stack = <<>> /\ ~panicked

\* the driver makes its direct calls once its script is through
CanCall == Idle /\ idx > Len(script) /\ calls < MaxCalls

DriverRun ==
    /\ Idle
    /\ idx <= Len(script)
    /\ stack' = << [Frame("run", script[idx], NoOpts, 1, <<>>, 0) EXCEPT !.pc = "spawned"],
                   SpawnFrame(script[idx], NoOpts, 1) >>
    /\ ret' = RetNone
    /\ idx' = idx + 1
    /\ UNCHANGED <<JM, OS, ecs, panicked, script, calls, observed>>

JidArgs == 0..next_jid

JidLists ==
    {<<>>} \cup { <<j>> : j \in 0..(next_jid - 1) }
           \cup { <<j, k>> : j \in 0..(next_jid - 1), k \in 0..(next_jid - 1) }

DriverStat ==
    /\ CanCall
    /\ \E j \in JidArgs :
          LET r == StatOf(j, running_jobs, completed_jobs)
          IN ret' = [RetNone EXCEPT !.op = "stat", !.ok = r.ok, !.err = r.err,
                                    !.js = r.js, !.st = r.st, !.arg = <<j>>]
    /\ calls' = calls + 1
    /\ UNCHANGED <<JM, OS, ecs, stack, panicked, script, idx, observed>>

DriverAwait ==
    /\ CanCall
    /\ \E j \in JidArgs :
          IF j \in DOMAIN completed_jobs
          THEN ret' = OkStatus("await", <<j>>, completed_jobs[j]) /\ UNCHANGED stack
          ELSE stack' = <<AwaitFrame(j)>> /\ ret' = RetNone
    /\ calls' = calls + 1
    /\ UNCHANGED <<JM, OS, ecs, panicked, script, idx, observed>>

DriverAwaitAll ==
    /\ CanCall
    /\ \E js \in JidLists :
          stack' = <<AwaitAllFrame(js)>> /\ ret' = RetNone
    /\ calls' = calls + 1
    /\ UNCHANGED <<JM, OS, ecs, panicked, script, idx, observed>>

\* after a script that is one Group, the driver notes what it saw and runs
\* the commands of the group one by one against a new ExecutionContext
DriverSequential ==
    /\ Idle
    /\ observed.phase = "none"
    /\ Len(script) = 1 /\ idx = 2
    /\ script[1].type = "Group" /\ script[1].commands # <<>>
    /\ ret.op = "run"
    /\ observed' = [phase |-> "seq", ec |-> ecs[1], ok |-> ret.ok,
                    exit_code |-> ret.st.exit_code]
    /\ ecs' = <<NewContext>>
    /\ script' = script[1].commands
    /\ idx' = 1
    /\ UNCHANGED <<JM, OS, stack, ret, panicked, calls>>

(***************************************************************************)
(* The scripts.                                                            *)
(***************************************************************************)
DefFn(body) == Function(Lit(<<"fn">>), body)

GroupCmds == { True, False, DefFn(False), CallFn }

Scripts ==
    { <<True>>, <<False>>, <<Killed>>, <<Dir>>, <<Missing>>,
      <<Pipeline(True, False)>>,
      <<Pipeline(Pipeline(True, False), Killed)>>,
      <<Pipeline(True, Pipeline(False, True))>>,
      <<Pipeline(Pipeline(Pipeline(True, True), True), True)>>,
      <<Pipeline(Pipeline(True, False), Missing)>>,
      <<Pipeline(Pipeline(True, False), Missing), Pipeline(False, True)>>,
      <<Pipeline(True, Missing), Pipeline(False, True)>>,
      <<Pipeline(True, Group(<<Comment>>))>>,
      <<Pipeline(Group(<<True>>), False)>>,
      <<Group(<<Pipeline(True, False), True>>)>>,
      <<BraceGroup(<<ConditionalPair(False, True, "OrIf"), Group(<<True>>), False>>)>>,
      <<Pipeline(Missing, True), Pipeline(Pipeline(True, False), True)>>,
      <<Pipeline(Missing, True), Pipeline(Missing, True), Pipeline(Pipeline(True, False), True)>>,
      <<Pipeline(Pipeline(True, True), Group(<<False>>))>>,
      <<ConditionalPair(Group(<<False>>), True, "AndIf")>>,
      <<ConditionalPair(ConditionalPair(True, False, "AndIf"), True, "OrIf")>>,
      <<Pipeline(True, ConditionalPair(False, True, "OrIf"))>>,
      <<BraceGroup(<<DefFn(False), CallFn>>), CallFn>>,
      <<DefFn(Pipeline(True, False)), CallFn>>,
      <<Function(BadWord, True)>>,
      <<DefFn(CallFn), CallFn>>,
      <<SimpleCommand(<<AssignX(<<".", "f">>)>>), SimpleCommand(<<AssignX(<<".", "t">>)>>)>>,
      <<BraceGroup(<<SimpleCommand(<<AssignX(<<".", "f">>)>>)>>),
        SimpleCommand(<<AssignX(<<".", "t">>), BadWord>>)>>,
      <<Group(<<SimpleCommand(<<AssignX(<<".", "f">>)>>)>>),
        SimpleCommand(<<AssignX(<<".", "t">>)>>)>> }
    \cup { <<ConditionalPair(a, b, op)>> : a \in {True, False, Killed}, b \in {True, False},
                                           op \in {"AndIf", "OrIf"} }
    \cup { <<Group(<<a, b, c>>)>> : a \in GroupCmds, b \in GroupCmds, c \in GroupCmds }

Init ==
    /\ next_jid = 0
    /\ running_jobs = EmptyMap
    /\ completed_jobs = EmptyMap
    /\ ecs = <<NewContext>>
    /\ stack = <<>>
    /\ ret = RetNone
    /\ panicked = FALSE
    /\ procs = [p \in Pids |-> FreeProc]
    /\ pfd = [fd \in Fds |-> NoEnd]
    /\ npipes = 0
    /\ last_pid = 0
    /\ script \in Scripts
    /\ idx = 1
    /\ calls = 0
    /\ observed = [phase |-> "none", ec |-> NewContext, ok |-> TRUE, exit_code |-> 0]

Next ==
    \/ DriverRun \/ DriverStat \/ DriverAwait \/ DriverAwaitAll \/ DriverSequential
    \/ RunSpawned \/ RunReturn
    \/ Simple \/ FunctionReturn
    \/ PipelineStart \/ PipelineFromDone \/ PipelineToDone
    \/ GroupStart \/ GroupCmdDone \/ GroupAwaited
    \/ CondStart \/ CondLeftDone \/ CondLeftAwaited \/ CondRightDone \/ CondRightAwaited
    \/ FunctionDef \/ CommentStep
    \/ AwaitAllFirst \/ AwaitAllLoop \/ AwaitNext
    \/ ChildExit

Spec == Init /\ [][Next]_vars

(***************************************************************************)
(* Properties.                                                             *)
(***************************************************************************)
Frames == { stack[k] : k \in 1..Len(stack) }

AllCompleted(jids) == \A k \in 1..Len(jids) : jids[k] \in DOMAIN completed_jobs

Synthetic == ExitStatus(ShellPid, 0, FALSE, NoSignal)

\* C1: run hands the Jids the evaluator returned to await_all; when it
\* returns, all of them are in completed_jobs and its result is the status
\* stored for the last of them, or the synthetic exit-code-0 status when the
\* evaluator returned none.
C1_RunReturnsLastStatus ==
    /\ [][At("run", "spawned") /\ ret.ok /\ stack' # stack
            => /\ stack'[Len(stack)].jids = ret.jids
               /\ stack'[Len(stack')].fn = "await_all"
               /\ stack'[Len(stack')].jids = ret.jids]_vars
    /\ [][At("run", "awaited")
            => /\ AllCompleted(Top.jids)
               /\ stack' # stack =>
                    /\ stack' = Rest /\ ~panicked'
                    /\ ret'.op = "run" /\ ret'.ok
                    /\ ret'.st = IF Top.jids = <<>> THEN Synthetic
                                 ELSE completed_jobs[Last(Top.jids)]
                    /\ Top.jids = <<>> =>
                         /\ ret'.st.exit_code = 0
                         /\ ~ret'.st.core_dumped
                         /\ ret'.st.signal = NoSignal]_vars

\* C1 witness: the two-stage pipeline ./t | ./f returned the status of its
\* last stage (exit code 1, where the first stage's is 0)
C1_Witness ==
    /\ script = <<Pipeline(True, False)>> /\ idx = 2 /\ stack = <<>>
    /\ ret.op = "run" /\ ret.ok /\ ret.st.exit_code = 1
    /\ ret.st = completed_jobs[1] /\ completed_jobs[0].exit_code = 0

LastCode(jids) ==
    IF jids = <<>> THEN 0 ELSE completed_jobs[Last(jids)].exit_code

ShouldRunRight(last_code, operator) ==
    (operator = "AndIf" /\ last_code = 0) \/ (operator = "OrIf" /\ last_code # 0)

\* C2: a ConditionalPair awaits left first; right is spawned if and only if
\* (AndIf and the last exit code of left is 0) or (OrIf and it is not 0); the
\* pair returns right's Jids when right ran and left's otherwise; for
\* ./f && ./t and ./t || ./f no process of the right side ever exists.
C2_ConditionalShortCircuit ==
    /\ [][AtCmd("ConditionalPair", "left_awaited")
            => /\ AllCompleted(Top.jids)
               /\ stack' # stack =>
                    IF ShouldRunRight(LastCode(Top.jids), Top.cmd.operator)
                    THEN /\ Len(stack') = Len(stack) + 1
                         /\ stack'[Len(stack')].fn = "spawn"
                         /\ stack'[Len(stack')].cmd = Top.cmd.right
                    ELSE /\ stack' = Rest
                         /\ ret'.ok /\ ret'.jids = Top.jids]_vars
    /\ [][AtCmd("ConditionalPair", "right_done") /\ ret.ok /\ stack' # stack
            => stack'[Len(stack)].jobs_right = ret.jids]_vars
    /\ [][AtCmd("ConditionalPair", "right_awaited") /\ stack' # stack
            => stack' = Rest /\ ret'.ok /\ ret'.jids = Top.jobs_right]_vars
    /\ [](\A p \in Pids :
            /\ script = <<ConditionalPair(False, True, "AndIf")>>
                 => procs[p].exe # <<".", "t">>
            /\ script = <<ConditionalPair(True, False, "OrIf")>>
                 => procs[p].exe # <<".", "f">>)

\* C2 witness: ./f && ./t has returned the status of ./f, the only job there is
C2_Witness ==
    /\ script = <<ConditionalPair(False, True, "AndIf")>> /\ idx = 2 /\ stack = <<>>
    /\ ret.op = "run" /\ ret.ok /\ ret.st.exit_code = 1
    /\ next_jid = 1

\* C3: the Jids that are values of running_jobs and the Jids that are keys of
\* completed_jobs are disjoint.
C3_RunningCompletedDisjoint ==
    Range(running_jobs) \cap DOMAIN completed_jobs = {}

\* C4: an entry of completed_jobs is never changed or removed by any later
\* step, and await of a Jid that has an entry returns that entry without
\* waiting (no child is reaped, nothing is pushed on the stack).
C4_StatusesStable ==
    /\ [][\A j \in DOMAIN completed_jobs :
             j \in DOMAIN completed_jobs' /\ completed_jobs'[j] = completed_jobs[j]]_vars
    /\ [][(Idle /\ calls' = calls + 1
              /\ (ret'.op = "await" \/ (stack' # <<>> /\ stack'[1].fn = "await")))
            => LET j == IF stack' = <<>> THEN ret'.arg[1] ELSE stack'[1].jid
               IN j \in DOMAIN completed_jobs
                    => /\ stack' = <<>> /\ ret'.ok
                       /\ ret'.st = completed_jobs[j]
                       /\ procs' = procs /\ completed_jobs' = completed_jobs]_vars

\* C4 witness: await(j) returned the stored status of a job whose pid has
\* since been given to a later child
C4_Witness ==
    /\ stack = <<>> /\ ret.op = "await" /\ ret.ok
    /\ LET j == ret.arg[1]
       IN /\ j \in DOMAIN completed_jobs
          /\ ret.st = completed_jobs[j]
          /\ running_jobs[completed_jobs[j].pid] # j

StrictlyIncreasing(jids) ==
    \A k \in 1..Len(jids) : \A l \in 1..Len(jids) : k < l => jids[k] < jids[l]

\* C5: every Jid handed out is below next_jid, so the next one is greater
\* than all before it; no Jid is stored under two pids; next_jid never goes
\* down; every Jid sequence held or returned by the evaluator is strictly
\* increasing.
C5_JidsIncreasing ==
    /\ [](/\ \A p \in DOMAIN running_jobs : running_jobs[p] < next_jid
          /\ \A j \in DOMAIN completed_jobs : j < next_jid
          /\ \A p \in DOMAIN running_jobs : \A q \in DOMAIN running_jobs :
                p # q => running_jobs[p] # running_jobs[q]
          /\ StrictlyIncreasing(ret.jids)
          /\ \A f \in Frames :
                f.fn \in {"run", "spawn"}
                   => StrictlyIncreasing(f.jids) /\ StrictlyIncreasing(f.jobs_right))
    /\ [][next_jid' >= next_jid]_vars
    /\ [][running_jobs' # running_jobs
            => /\ next_jid' = next_jid + 1
               /\ \E p \in Pids : running_jobs' = MapInsert(running_jobs, p, next_jid)]_vars

\* C5 witness: the evaluator returned three Jids for a three-stage pipeline
C5_Witness ==
    /\ ret.op = "spawn" /\ ret.ok /\ Len(ret.jids) = 3
    /\ ret.jids[1] < ret.jids[2] /\ ret.jids[2] < ret.jids[3]

\* C6: an await_all of a non-empty list of issued Jids that has returned
\* with all of them in completed_jobs has returned success.
C6_AwaitAllReturnsSuccess ==
    (ret.op = "await_all" /\ ret.arg # <<>> /\ AllCompleted(ret.arg)) => ret.ok

\* C7: an await_all entered with no Jid to wait for (an empty list, or all
\* of them already in completed_jobs) returns success at once: no child is
\* reaped, running_jobs and completed_jobs stay as they are.
C7_AwaitAllEmptyIsNoOp ==
    [][At("await_all", "first") /\ Top.incomplete = {} /\ stack' # stack
         => /\ stack' = Rest /\ ret'.ok
            /\ procs' = procs
            /\ running_jobs' = running_jobs
            /\ completed_jobs' = completed_jobs]_vars

\* C8: whenever a wait inside await or await_all reaps a child, the pair
\* next() made of it (the Jid stored under its pid, the status of that pid) is
\* in completed_jobs when the step is over; and every Jid handed out is either
\* the Jid of a child not yet reaped or a key of completed_jobs.
C8_NoReapedStatusLost ==
    /\ [][\A p \in Pids :
             (procs[p].st = "zombie" /\ procs'[p].st = "free")
                => /\ p \in DOMAIN running_jobs
                   /\ running_jobs[p] \in DOMAIN completed_jobs'
                   /\ completed_jobs'[running_jobs[p]] = NextStatus(p)]_vars
    /\ [](\A j \in 0..(next_jid - 1) :
             \/ j \in DOMAIN completed_jobs
             \/ \E p \in DOMAIN running_jobs :
                   running_jobs[p] = j /\ procs[p].st # "free")

\* C8 witness: await(j) is waiting for j, and has stored the status of
\* another job that terminated first (the run before it failed in spawning,
\* so nothing was reaped before the await)
C8_Witness ==
    /\ script = <<Pipeline(Pipeline(True, False), Missing)>>
    /\ At("await", "next")
    /\ Top.jid < next_jid /\ Top.jid \notin DOMAIN completed_jobs
    /\ completed_jobs # EmptyMap

\* C9: stat(jid) is Complete(status) when jid is a key of completed_jobs,
\* else Running when jid is a value of running_jobs, else InvalidJobId; it is
\* InvalidJobId only for a Jid never handed out, and in every state every Jid
\* handed out is a key of completed_jobs or a value of running_jobs.
C9_StatResolvesIssued ==
    /\ ret.op = "stat" =>
         LET j == ret.arg[1]
         IN /\ j \in DOMAIN completed_jobs
                 => ret.ok /\ ret.js = "Complete" /\ ret.st = completed_jobs[j]
            /\ (j \notin DOMAIN completed_jobs /\ j \in Range(running_jobs))
                 => ret.ok /\ ret.js = "Running"
            /\ (j \notin DOMAIN completed_jobs /\ j \notin Range(running_jobs))
                 => ~ret.ok /\ ret.err = "InvalidJobId"
            /\ ~ret.ok => j >= next_jid
            /\ j < next_jid => ret.ok
    /\ \A j \in 0..(next_jid - 1) :
          j \in DOMAIN completed_jobs \/ j \in Range(running_jobs)

\* C9 witness: stat returned Complete for a job whose pid was reused, so that
\* its Jid is no longer a value of running_jobs
C9_Witness ==
    /\ ret.op = "stat" /\ ret.ok /\ ret.js = "Complete"
    /\ ret.arg[1] \notin Range(running_jobs)

\* C10: when the commands of a Group that ran without error have then been
\* run one after the other against a new context, the context is the one the
\* Group left and the exit code of the last run is the exit code the Group
\* returned.
C10_GroupLikeSequence ==
    (/\ observed.phase = "seq" /\ observed.ok
     /\ Idle /\ idx > Len(script) /\ ret.op = "run" /\ ret.ok)
       => /\ observed.ec = ecs[1]
          /\ observed.exit_code = ret.st.exit_code

IsFrameOf(f, type) == f.fn = "spawn" /\ f.cmd.type = type

\* C11: a BraceGroup runs its commands against a clone of the caller's
\* context: while it is being evaluated no step changes the caller's vars or
\* funcs (nor any context below the clone), and the clone is gone when it
\* returns; a Group runs its commands against the caller's context itself and
\* its return leaves the contexts as the commands left them.
C11_BraceGroupIsolatesContext ==
    /\ [][\A k \in 1..Len(stack) :
             (IsFrameOf(stack[k], "BraceGroup") /\ stack[k].pc # "start")
                => /\ stack[k].sub > stack[k].ec
                   /\ \A i \in 1..(stack[k].sub - 1) : ecs'[i] = ecs[i]]_vars
    /\ [][(Active /\ IsFrameOf(Top, "BraceGroup") /\ Top.pc = "start")
            => /\ \A i \in 1..Len(ecs) : ecs'[i] = ecs[i]
               /\ Len(stack') > Len(stack)
                    => /\ Len(ecs') = Len(ecs) + 1
                       /\ ecs'[Len(ecs')] = ecs[Top.ec]
                       /\ stack'[Len(stack')].ec = Len(ecs')]_vars
    /\ [][(Active /\ IsFrameOf(Top, "BraceGroup") /\ Len(stack') < Len(stack))
            => ecs' = SubSeq(ecs, 1, Top.sub - 1)]_vars
    /\ [][(Active /\ IsFrameOf(Top, "Group") /\ stack' # stack)
            => /\ ecs' = ecs
               /\ Len(stack') > Len(stack) /\ stack'[Len(stack')].fn = "spawn"
                    => stack'[Len(stack')].ec = Top.ec]_vars
    /\ [](Idle /\ idx > 1 /\ observed.phase = "none" /\ ret.op = "run" /\ ret.ok
            => /\ (idx = 2 /\ script[1].type = "BraceGroup") => ecs = <<NewContext>>
               /\ (idx = 2 /\ script[1] = Group(<<DefFn(False), True, True>>))
                    => (ecs[1].funcs = MapInsert(EmptyMap, <<"fn">>, False)
                        /\ ecs[1].vars = NewContext.vars)
               /\ (idx = 2 /\ script[1].type = "Group" /\ Len(script) = 2)
                    => ecs[1].vars.X = <<".", "f">>)

\* C11 witness: the function a BraceGroup defined and called (one child ran)
\* is unknown to the caller afterwards: the same call fails to find fn
C11_Witness ==
    /\ script = <<BraceGroup(<<DefFn(False), CallFn>>), CallFn>>
    /\ Idle /\ idx = 3 /\ next_jid = 1 /\ completed_jobs[0].exit_code = 1
    /\ ret.op = "run" /\ ~ret.ok /\ ret.err = "MissingExecutable"
    /\ ecs = <<NewContext>>

\* the steps of the shell itself (not of the driver, not of the children)
EvalStep ==
    \/ RunSpawned \/ RunReturn \/ Simple \/ FunctionReturn
    \/ PipelineStart \/ PipelineFromDone \/ PipelineToDone
    \/ GroupStart \/ GroupCmdDone \/ GroupAwaited
    \/ CondStart \/ CondLeftDone \/ CondLeftAwaited \/ CondRightDone \/ CondRightAwaited
    \/ FunctionDef \/ CommentStep
    \/ AwaitAllFirst \/ AwaitAllLoop \/ AwaitNext

Unreaped(j) ==
    \E p \in DOMAIN running_jobs : running_jobs[p] = j /\ procs[p].st # "free"

NoneAlive == \A p \in Pids : procs[p].st # "alive"

\* the shell died in a function call that found no room on the stack
StackOverflow ==
    /\ panicked /\ stack # <<>> /\ Len(stack) >= MaxStack
    /\ IsFrameOf(Top, "SimpleCommand") /\ Top.pc = "start"

\* the children terminate, and the shell runs whenever it can
FairSpec == Spec /\ WF_vars(EvalStep) /\ WF_vars(ChildExit)

\* C12, as stated: run never returns (with a status or with an error) while
\* a child spawned for it is unreaped, shown on the first run of a shell, and
\* while a run is in progress with none of its children alive the shell is
\* there and can take its next step towards the return.
C12_RunTerminatesIffChildrenDo ==
    /\ [][(stack # <<>> /\ stack[1].fn = "run" /\ stack' = <<>>
              /\ idx = 2 /\ observed.phase = "none") => NoChildren]_vars
    /\ [](stack # <<>> /\ NoneAlive => ~panicked /\ ENABLED EvalStep)

\* C12, amended: when run returns a status, every child the evaluator
\* returned a Jid for is reaped and recorded, and after the first run of a
\* shell no child is left at all; while a run is in progress with none of its
\* children alive the shell can take its next step, unless it died of stack
\* overflow in a function call; and, the children terminating, every call in
\* progress comes to its return or to that overflow.
C12_RunReturnsStatusAfterChildren ==
    /\ [][(At("run", "awaited") /\ stack' = Rest)
            => /\ \A k \in 1..Len(Top.jids) :
                     Top.jids[k] \in DOMAIN completed_jobs /\ ~Unreaped(Top.jids[k])
               /\ (idx = 2 /\ observed.phase = "none") => NoChildren]_vars
    /\ [](stack # <<>> /\ NoneAlive
            => IF panicked THEN StackOverflow ELSE ENABLED EvalStep)
    /\ (stack # <<>>) ~> (stack = <<>> \/ StackOverflow)

\* C12 witness: the first run of a shell returned the status of a three-stage
\* pipeline, whose children are all reaped
C12_Witness ==
    /\ script = <<Pipeline(Pipeline(True, False), Killed)>>
    /\ Idle /\ idx = 2 /\ ret.op = "run" /\ ret.ok /\ ret.st.signal = "SIGKILL"
    /\ next_jid = 3 /\ NoChildren /\ DOMAIN completed_jobs = {0, 1, 2}

\* a caller of await_all has its result in hand
AfterAwaitAll ==
    \/ At("run", "awaited")
    \/ (Active /\ Top.fn = "spawn" /\ Top.pc = "awaited" /\ IsGroup(Top.cmd.type))
    \/ AtCmd("ConditionalPair", "left_awaited")
    \/ AtCmd("ConditionalPair", "right_awaited")

\* C13: when the await_all that run, a Group, a BraceGroup or a
\* ConditionalPair called has failed with WaitFailed, the caller's next step is
\* to return that error: it spawns nothing more and returns no Jids and no
\* exit status; and a run in which a wait failed returns WaitFailed.
C13_WaitErrorsAreFatal ==
    [][(AfterAwaitAll /\ ret.op = "await_all" /\ ~ret.ok /\ stack' # stack)
         => /\ stack' = Rest
            /\ ~ret'.ok /\ ret'.err = "WaitFailed"]_vars

\* a PATH entry joined with a program name
Joined(entry, prog) == entry \o prog

\* C14: an executable found by the PATH search is the first existing path
\* among the PATH entries joined with the name, in the order of PATH; and the
\* search fails with MissingExecutable(name) only when no entry joined with
\* name exists.
C14_FindExecutableJoinsEntries ==
    /\ \A p \in Pids :
          (procs[p].st # "free" /\ ~StartsWithDotSlash(procs[p].exe))
             => \E i \in 1..Len(EnvPath) :
                   /\ procs[p].exe = Joined(EnvPath[i], <<Last(procs[p].exe)>>)
                   /\ Exists(procs[p].exe)
                   /\ \A k \in 1..(i - 1) :
                         ~Exists(Joined(EnvPath[k], <<Last(procs[p].exe)>>))
    /\ (~ret.ok /\ ret.err = "MissingExecutable")
          => \A i \in 1..Len(EnvPath) : ~Exists(Joined(EnvPath[i], ret.arg))

\* frame k is a Pipeline whose pipe exists and is not yet closed by the parent
PipeInProgress(k) ==
    IsFrameOf(stack[k], "Pipeline") /\ stack[k].pc \in {"from_done", "to_done"}

\* the evaluation of frame f has already awaited jobs
Waited(f) ==
    \/ IsFrameOf(f, "ConditionalPair") /\ f.pc = "right_done"
    \/ f.fn = "spawn" /\ IsGroup(f.cmd.type) /\ f.pc = "cmd_done" /\ f.i > 1

\* C15: between the creation of a pipeline's pipe and the spawn of its last
\* process the parent does not wait: it is not in await_all while the from
\* side is being evaluated (nothing of the to side is spawned yet), and no
\* process is spawned inside a pipeline by a stage that has already awaited
\* jobs.
C15_PipelineSpawnsBeforeWait ==
    /\ [](\A k \in 1..Len(stack) : \A l \in 1..Len(stack) :
             (k < l /\ PipeInProgress(k) /\ stack[k].pc = "from_done")
                => stack[l].fn # "await_all")
    /\ [][next_jid' = next_jid + 1
            => \A k \in 1..Len(stack) : \A l \in 1..Len(stack) :
                  (k < l /\ PipeInProgress(k)) => ~Waited(stack[l])]_vars

WriteEnd(n) == [pipe |-> n, end |-> "w"]

\* the pipe ends the parent holds open
ParentHolds == { pfd[fd] : fd \in Fds } \ {NoEnd}

\* the parent is in await_all or await, where it blocks in wait
ParentWaits == Active /\ Top.fn \in {"await_all", "await"}

\* C16: while the parent is in await_all or await and a child that reads
\* its stdin from a pipe is alive, the write end of that pipe is held by
\* nobody but the processes writing to it (their stdout): not by the parent,
\* not by any other child; so that the reader sees end-of-file as soon as
\* the writers have exited.
C16_ReaderSeesEof ==
    ParentWaits =>
       \A r \in Pids :
          (procs[r].st = "alive" /\ procs[r].fd0.end = "r")
             => /\ WriteEnd(procs[r].fd0.pipe) \notin ParentHolds
                /\ \A p \in Pids :
                      (procs[p].st = "alive" /\ WriteEnd(procs[r].fd0.pipe) \in procs[p].held)
                         => procs[p].fd1 = WriteEnd(procs[r].fd0.pipe)

\* C17: when the evaluation of a Pipeline returns, with Jids or with an
\* error, the parent has closed both ends of the pipe it created for it; and
\* when no call is in progress the parent holds no pipe end.
C17_NoPipeLeak ==
    /\ [][(Active /\ PipeInProgress(Len(stack)) /\ stack' = Rest)
            => pfd'[Top.stdin] = NoEnd /\ pfd'[Top.stdout] = NoEnd]_vars
    /\ [](Idle => ParentHolds = {})

\* the pipes of the pipelines that are being evaluated
PipesInProgress ==
    { pfd[stack[k].stdin].pipe : k \in { k \in 1..Len(stack) : PipeInProgress(k) } }

\* the number of stages of a pipeline
RECURSIVE Stages(_)
Stages(cmd) ==
    IF cmd.type = "Pipeline" THEN Stages(cmd.from) + Stages(cmd.to) ELSE 1

\* the discipline of close_fds by itself: of the pipes of the pipelines being
\* evaluated, a child holds only the read end that is its stdin and the
\* write end that is its stdout
CloseFdsDiscipline ==
    [][next_jid' = next_jid + 1
         => \A p \in Pids :
               procs'[p] # procs[p]
                  => /\ procs'[p].fd0.end \in {"r", "tty"}
                     /\ procs'[p].fd1.end \in {"w", "tty"}
                     /\ \A e \in procs'[p].held :
                           e.pipe \in PipesInProgress
                              => e \in {procs'[p].fd0, procs'[p].fd1}]_vars

\* C18: a child spawned for a pipeline of three or more stages holds, when
\* it execs, no pipe end but the read end that is its stdin and the write end
\* that is its stdout.
C18_ChildHoldsOnlyOwnEnds ==
    [][(next_jid' = next_jid + 1 /\ Stages(stack[1].cmd) >= 3)
         => \A p \in Pids :
               procs'[p] # procs[p]
                  => /\ procs'[p].fd0.end \in {"r", "tty"}
                     /\ procs'[p].fd1.end \in {"w", "tty"}
                     /\ procs'[p].held \subseteq {procs'[p].fd0, procs'[p].fd1}]_vars

GroupAt(pc) == Active /\ Top.fn = "spawn" /\ IsGroup(Top.cmd.type) /\ Top.pc = pc

\* C19: in a Group or BraceGroup every command's Jids go to await_all as
\* soon as the command has been spawned, and when the group moves on, to
\* spawn its next command or to return, every job it got a Jid for is reaped
\* and recorded; a group that is the whole command of a shell's first run has
\* then no child left and every Jid handed out is recorded; the group returns
\* an empty Jid sequence, after the await of its last command.
C19_GroupsAreSequential ==
    /\ [][(GroupAt("cmd_done") /\ ret.ok /\ stack' # stack)
            => /\ Len(stack') = Len(stack) + 1
               /\ stack'[Len(stack')].fn = "await_all"
               /\ stack'[Len(stack')].jids = ret.jids
               /\ next_jid' = next_jid]_vars
    /\ [](GroupAt("awaited")
            => /\ ret.op = "await_all"
               /\ \A k \in 1..Len(ret.arg) :
                     ret.arg[k] \in DOMAIN completed_jobs /\ ~Unreaped(ret.arg[k])
               /\ (Len(stack) = 2 /\ idx = 2 /\ observed.phase = "none")
                     => /\ NoChildren
                        /\ \A j \in 0..(next_jid - 1) : j \in DOMAIN completed_jobs)
    /\ [][(Active /\ Top.fn = "spawn" /\ IsGroup(Top.cmd.type)
              /\ stack' = Rest /\ ret'.ok)
            => /\ ret'.jids = <<>>
               /\ Top.i >= Len(Top.cmd.commands)
               /\ Top.cmd.commands # <<>> => Top.pc = "awaited"]_vars
    /\ [][(next_jid' = next_jid + 1 /\ Len(stack) = 3 /\ GroupAt("cmd_done")' 
              /\ idx = 2 /\ observed.phase = "none")
            => /\ NoChildren
               /\ \A j \in 0..(next_jid - 1) : j \in DOMAIN completed_jobs]_vars

\* C19 witness: a Group is about to spawn its second command; the two jobs
\* of its first command, a pipeline, are reaped and recorded
C19_Witness ==
    /\ script = <<Group(<<Pipeline(True, False), True>>)>>
    /\ Len(stack) = 3 /\ stack[2].pc = "cmd_done" /\ stack[2].i = 2
    /\ AtCmd("SimpleCommand", "start")
    /\ next_jid = 2 /\ DOMAIN completed_jobs = {0, 1} /\ NoChildren

\* C20: when run, after its await_all, and a ConditionalPair, after
\* the await_all of its left side, look up the last Jid of the awaited
\* sequence in completed_jobs, the entry is there, whether await_all returned
\* success or an error; the shell never dies of one of these unwraps (it dies
\* of nothing but the stack overflow of an endless recursion).
C20_LookupsNeverFail ==
    /\ At("run", "awaited")
         => /\ ret.op = "await_all"
            /\ Top.jids # <<>> => Last(Top.jids) \in DOMAIN completed_jobs
            /\ ~RunResult(Top.jids, completed_jobs).panic
    /\ AtCmd("ConditionalPair", "left_awaited")
         => /\ ret.op = "await_all"
            /\ Top.jids # <<>> => Last(Top.jids) \in DOMAIN completed_jobs
            /\ ~CondExitCode(Top.jids, completed_jobs).panic
    /\ panicked => StackOverflow

\* C20 witness: run is about to look up the last of three Jids after an
\* await_all that returned WaitFailed
C20_Witness ==
    /\ At("run", "awaited") /\ Len(Top.jids) = 3
    /\ ret.op = "await_all" /\ ~ret.ok /\ ret.err = "WaitFailed"
    /\ Last(Top.jids) \in DOMAIN completed_jobs

====
